---- MODULE Spec2Model ----
(***************************************************************************)
(* A model of vector.py: a persistent bit-partitioned vector trie with a   *)
(* transient (in-place) mode.  Nodes live in a heap indexed by object      *)
(* identity; a Vector is a record of its four attributes.  Every Python    *)
(* exception is modelled as an "err" result of the operation that raises   *)
(* it, together with the heap writes made before the raise.                *)
(***************************************************************************)
EXTENDS Integers, Sequences, FiniteSets, TLC

VARIABLES heap, vecs, last, steps, iter

vars == <<heap, vecs, last, steps, iter>>

----------------------------------------------------------------------------
(* Program constants (vector.py:19-23).                                    *)
BITS == 2
WIDTH == 2 ^ BITS
MASK == WIDTH - 1

(* Bounds of the model.                                                    *)
MaxLen == 17
MaxSteps == 3

----------------------------------------------------------------------------
(* Python values that a slot, a root or a result can hold.                 *)
None == [k |-> "None", v |-> 0]
Val(x) == [k |-> "val", v |-> x]
Ref(n) == [k |-> "Node", v |-> n]
IsNode(s) == s.k = "Node"

(* x & MASK and x >> n on Python's unbounded integers (floor semantics).   *)
AndMask(x) == x % (MASK + 1)
ShiftRight(x, n) == x \div (2 ^ n)

(* Node.__init__: the children padded with None up to WIDTH slots.         *)
Node(children) == children \o [i \in 1 .. (WIDTH - Len(children)) |-> None]

(* Allocation of a Node object: its identity is its index in the heap.     *)
Alloc(h, children) == Append(h, Node(children))
NewRef(h) == Ref(Len(h) + 1)

(* node.children[ix] and node.children[ix] = c for a node object.          *)
Child(h, node, ix) == h[node.v][ix + 1]
SetChild(h, node, ix, c) == [h EXCEPT ![node.v][ix + 1] = c]

(* Node.copy: a new object with a copy of the slot list.                   *)
NodeCopy(h, node) == Alloc(h, h[node.v])

(* utils.is_power_of(n, b): n = b^k for some k >= 1.                       *)
RECURSIVE is_power_of(_, _)
is_power_of(n, b) ==
    IF n < b THEN FALSE
    ELSE IF n % b # 0 THEN FALSE
    ELSE n = b \/ is_power_of(n \div b, b)

(* math.floor(math.log(n, b)) for n >= 1.                                  *)
RECURSIVE FloorLog(_, _)
FloorLog(n, b) == IF n < b THEN 0 ELSE 1 + FloorLog(n \div b, b)

(* Vector.depth; math.log raises ValueError on a negative size.            *)
DepthRaises(size) == size < 0
depth(size) == IF size = 0 THEN 0 ELSE FloorLog(size, WIDTH)

----------------------------------------------------------------------------
(* The three reducers handed to reduce_node.  The accumulator st carries   *)
(* the heap, the error raised so far, and the reducer's value: node (and   *)
(* prev, for pop).                                                         *)

(* at's reducer: node.children[ix].                                        *)
AtReducer(st, level, ix) ==
    IF ~IsNode(st.node) THEN [st EXCEPT !.err = "AttributeError"]
    ELSE [st EXCEPT !.node = Child(st.heap, st.node, ix)]

(* append's reducer: create the missing child, or copy it (persistent).    *)
AppendReducerInPlace(st, mutation, level, ix) ==
    IF ~IsNode(st.node) THEN [st EXCEPT !.err = "AttributeError"]
    ELSE LET c == Child(st.heap, st.node, ix) IN
         IF c = None
         THEN [st EXCEPT !.heap = SetChild(Alloc(st.heap, <<>>), st.node, ix, NewRef(st.heap)),
                         !.node = NewRef(st.heap)]
         ELSE [st EXCEPT !.node = c]

AppendReducer(st, mutation, level, ix) ==
    IF ~IsNode(st.node) THEN [st EXCEPT !.err = "AttributeError"]
    ELSE LET c == Child(st.heap, st.node, ix) IN
         IF c = None
         THEN [st EXCEPT !.heap = SetChild(Alloc(st.heap, <<>>), st.node, ix, NewRef(st.heap)),
                         !.node = NewRef(st.heap)]
         ELSE IF mutation
         THEN [st EXCEPT !.node = c]
         ELSE IF ~IsNode(c) THEN [st EXCEPT !.err = "AttributeError"]
         ELSE [st EXCEPT !.heap = SetChild(NodeCopy(st.heap, c), st.node, ix, NewRef(st.heap)),
                         !.node = NewRef(st.heap)]

(* pop's reducer: copy the child (persistent), then drop the whole leaf    *)
(* when the popped slot is its zeroth one.                                 *)
PopReducer(st, mutation, leaf_ix, level, ix) ==
    IF ~IsNode(st.node) THEN [st EXCEPT !.err = "AttributeError"]
    ELSE LET c == Child(st.heap, st.node, ix)
             copied == mutation \/ IsNode(c)
             h1 == IF mutation THEN st.heap
                   ELSE SetChild(NodeCopy(st.heap, c), st.node, ix, NewRef(st.heap))
             c1 == IF mutation THEN c ELSE NewRef(st.heap)
         IN IF ~copied THEN [st EXCEPT !.err = "AttributeError"]
            ELSE IF level = 1 /\ leaf_ix = 0
            THEN [st EXCEPT !.heap = SetChild(h1, st.node, ix, None),
                            !.prev = st.node, !.node = None]
            ELSE [st EXCEPT !.heap = h1, !.prev = st.node, !.node = c1]

Reducer(reducer, st, mutation, leaf_ix, level, ix) ==
    CASE reducer = "at" -> AtReducer(st, level, ix)
      [] reducer = "append" -> AppendReducer(st, mutation, level, ix)
      [] reducer = "pop" -> PopReducer(st, mutation, leaf_ix, level, ix)

(* Vector.reduce_node: for level in range(depth, 0, -1).                   *)
RECURSIVE reduce_node(_, _, _, _, _)
reduce_node(key, reducer, init, mutation, level) ==
    IF level <= 0 \/ init.err # "ok" THEN init
    ELSE LET ix == AndMask(ShiftRight(key, level * BITS))
         IN reduce_node(key, reducer,
                        Reducer(reducer, init, mutation, AndMask(key), level, ix),
                        mutation, level - 1)

----------------------------------------------------------------------------
(* A Vector object: root, size, mutation flag and the cached leaf.         *)
VectorObj(root, size) == [root |-> root, size |-> size, mutation |-> FALSE, leaf |-> None]

Walk(h, root) == [heap |-> h, err |-> "ok", node |-> root, prev |-> root]

(* A finished call: the heap, the error raised ("ok" when none), the       *)
(* receiver after the call, the returned Vector and whether that is the    *)
(* receiver itself.                                                        *)
Raised(h, self, e) == [heap |-> h, err |-> e, self |-> self, ret |-> self, same |-> TRUE]

(* Vector.__create: a fresh Vector([]) whose root and size are replaced;   *)
(* the receiver of the call that built it is left as it is.                *)
create(h, self, root, size) ==
    [heap |-> Alloc(h, <<>>), err |-> "ok", self |-> self,
     ret |-> VectorObj(root, size), same |-> FALSE]

(* A tail that builds a new Vector in either mode.                         *)
ReturnNew(h, self, root, size) == create(h, self, root, size)

(* The tail shared by append and pop (lines 139-144, 194-199).             *)
Return(h, self, root, size) ==
    IF ~self.mutation THEN create(h, self, root, size)
    ELSE LET s == [self EXCEPT !.root = root, !.size = size]
         IN [heap |-> h, err |-> "ok", self |-> s, ret |-> s, same |-> TRUE]

(* Vector.at: the value at index key, caching the leaf it was read from.   *)
at(h, self, key) ==
    IF DepthRaises(self.size) THEN [err |-> "ValueError", val |-> None, self |-> self]
    ELSE LET leaf_ix == AndMask(key)
             st == reduce_node(key, "at", Walk(h, self.root), self.mutation, depth(self.size))
         IN IF st.err # "ok" THEN [err |-> st.err, val |-> None, self |-> self]
            ELSE IF ~IsNode(st.node) THEN [err |-> "AttributeError", val |-> None, self |-> self]
            ELSE [err |-> "ok", val |-> Child(h, st.node, leaf_ix),
                  self |-> [self EXCEPT !.leaf = st.node]]

(* Vector.append.                                                          *)
append(h, self, val) ==
    IF ~self.mutation /\ ~IsNode(self.root) THEN Raised(h, self, "AttributeError")
    ELSE LET h0 == IF self.mutation THEN h ELSE Alloc(h, h[self.root.v])
             root0 == IF self.mutation THEN self.root ELSE NewRef(h)
             size == self.size + 1
             key == self.size
             leaf_ix == AndMask(key)
             overflow == is_power_of(self.size, WIDTH)
             h1 == IF overflow THEN Alloc(h0, <<root0>>) ELSE h0
             root == IF overflow THEN NewRef(h0) ELSE root0
         IN IF DepthRaises(self.size) THEN Raised(h1, self, "ValueError")
            ELSE LET st == reduce_node(key, "append", Walk(h1, root), self.mutation,
                                       depth(self.size))
                 IN IF st.err # "ok" THEN Raised(st.heap, self, st.err)
                    ELSE IF ~IsNode(st.node) THEN Raised(st.heap, self, "AttributeError")
                    ELSE Return(SetChild(st.heap, st.node, leaf_ix, val), self, root, size)

(* Vector.pop.                                                             *)
pop(h, self) ==
    IF ~self.mutation /\ ~IsNode(self.root) THEN Raised(h, self, "AttributeError")
    ELSE LET h0 == IF self.mutation THEN h ELSE Alloc(h, h[self.root.v])
             root0 == IF self.mutation THEN self.root ELSE NewRef(h)
             size == self.size - 1
             key == self.size - 1
             leaf_ix == AndMask(key)
         IN IF DepthRaises(self.size) THEN Raised(h0, self, "ValueError")
            ELSE LET st == reduce_node(key, "pop", Walk(h0, root0), self.mutation,
                                       depth(self.size))
                     leaf == st.node
                     \* Case 1.
                     h1 == IF leaf # None THEN SetChild(st.heap, leaf, leaf_ix, None)
                           ELSE st.heap
                     trim == is_power_of(self.size, WIDTH)
                     \* Case 3.
                     prev_leaf == IF trim THEN Child(h1, st.prev, 0) ELSE st.prev
                     \* Case 3a.
                     root == IF self.size = WIDTH THEN prev_leaf ELSE root0
                 IN IF st.err # "ok" THEN Raised(st.heap, self, st.err)
                    ELSE IF leaf # None /\ ~IsNode(leaf)
                    THEN Raised(st.heap, self, "AttributeError")
                    ELSE IF trim /\ ~IsNode(st.prev) THEN Raised(h1, self, "AttributeError")
                    ELSE Return(h1, self, root, size)

(* Vector.copy: append(None) followed by pop on what append returned.      *)
copy(h, self) ==
    LET out == append(h, self, None)
    IN IF out.err # "ok" THEN out
       ELSE LET res == pop(out.heap, out.ret)
            IN IF out.same THEN res
               ELSE [res EXCEPT !.self = self,
                                !.ret = IF res.err = "ok" THEN res.ret ELSE self,
                                !.same = res.err # "ok"]

(* Vector.__init__: transient appends of every value between two mutate    *)
(* calls, on a fresh object with an empty root.                            *)
RECURSIVE AppendAll(_, _, _)
AppendAll(call, vals, n) ==
    IF n > Len(vals) \/ call.err # "ok" THEN call
    ELSE AppendAll(append(call.heap, call.self, vals[n]), vals, n + 1)

mutate(self) == [self EXCEPT !.mutation = ~self.mutation]

Vector(h, vals) ==
    LET fresh == VectorObj(NewRef(h), 0)
        filled == AppendAll(Raised(Alloc(h, <<>>), mutate(fresh), "ok"), vals, 1)
    IN [filled EXCEPT !.self = mutate(filled.self), !.ret = mutate(filled.self)]

(* Vector.concat on receiver vs[i] with the Vectors vs[args[1]], ... as     *)
(* arguments.  st carries the heap, every Vector object (the base last,    *)
(* when it is a new copy) and the error raised so far.                     *)
RECURSIVE ConcatElements(_, _, _, _, _)
ConcatElements(st, b, a, j, n) ==
    IF j >= n \/ st.err # "ok" THEN st
    ELSE LET r == at(st.heap, st.vecs[a], j)
             vs1 == [st.vecs EXCEPT ![a] = r.self]
         IN IF r.err # "ok" THEN [st EXCEPT !.err = r.err]
            ELSE LET c == append(st.heap, vs1[b], r.val)
                 IN ConcatElements([heap |-> c.heap, vecs |-> [vs1 EXCEPT ![b] = c.self],
                                    err |-> c.err], b, a, j + 1, n)

RECURSIVE ConcatLists(_, _, _, _)
ConcatLists(st, b, lists, k) ==
    IF k > Len(lists) \/ st.err # "ok" THEN st
    ELSE ConcatLists(ConcatElements(st, b, lists[k], 0, st.vecs[lists[k]].size),
                     b, lists, k + 1)

(* Lines 214-216: the mode is restored and the base returned; a raise      *)
(* leaves the loop with the base still in transient mode, and a base that  *)
(* was a new copy is then referenced by nobody.                            *)
ConcatReturn(vs, b, mutation, st) ==
    IF st.err # "ok"
    THEN [heap |-> st.heap, err |-> st.err, ret |-> 0,
          vecs |-> IF b > Len(vs) THEN SubSeq(st.vecs, 1, Len(vs)) ELSE st.vecs]
    ELSE [heap |-> st.heap, err |-> "ok", ret |-> b,
          vecs |-> [st.vecs EXCEPT ![b].mutation = mutation]]

(* Lines 208-213, given the call that produced the base (line 207).        *)
ConcatOnto(vs, i, args, base) ==
    IF base.err # "ok"
    THEN [heap |-> base.heap, err |-> base.err, ret |-> 0, vecs |-> vs]
    ELSE IF base.same
    THEN ConcatReturn(vs, i, vs[i].mutation,
                      ConcatLists([heap |-> base.heap, err |-> "ok",
                                   vecs |-> [vs EXCEPT ![i].mutation = TRUE]], i, args, 1))
    ELSE ConcatReturn(vs, Len(vs) + 1, vs[i].mutation,
                      ConcatLists([heap |-> base.heap, err |-> "ok",
                                   vecs |-> Append(vs, [base.ret EXCEPT !.mutation = TRUE])],
                                  Len(vs) + 1, args, 1))

concat(h, vs, i, args) ==
    ConcatOnto(vs, i, args, IF vs[i].mutation THEN Raised(h, vs[i], "ok") ELSE copy(h, vs[i]))

(* Vector.slice: a copy when start is None, else a new Vector of the       *)
(* values at(start), ..., at(end - 1).                                     *)
RECURSIVE SliceElements(_, _, _, _)
SliceElements(h, st, i, end) ==
    IF i >= end \/ st.err # "ok" THEN st
    ELSE LET r == at(h, st.self, i)
         IN SliceElements(h, [self |-> r.self, out_list |-> Append(st.out_list, r.val),
                              err |-> r.err], i + 1, end)

(* An optional int argument is None or Val(n).                             *)
SliceEnd(self, end) ==
    IF end = None THEN self.size + 1
    ELSE IF end.v < 0 THEN end.v + self.size
    ELSE end.v

slice(h, self, start, end) ==
    IF start = None THEN copy(h, self)
    ELSE LET st == SliceElements(h, [self |-> self, out_list |-> <<>>, err |-> "ok"],
                                 start.v, SliceEnd(self, end))
             made == Vector(h, st.out_list)
         IN IF st.err # "ok" THEN Raised(h, st.self, st.err)
            ELSE [made EXCEPT !.self = st.self, !.same = FALSE]

(* Vector.splice: a new Vector of at(0), ..., at(start - 1), then vals,     *)
(* then at(start), ..., at(size - 1).                                      *)
splice(h, self, start, vals) ==
    LET head == SliceElements(h, [self |-> self, out_list |-> <<>>, err |-> "ok"], 0, start)
        st == SliceElements(h, [head EXCEPT !.out_list = head.out_list \o vals],
                            start, self.size)
        made == Vector(h, st.out_list)
    IN IF st.err # "ok" THEN Raised(h, st.self, st.err)
       ELSE [made EXCEPT !.self = st.self, !.same = FALSE]

(* Vector.for_each.  ForEachEnd is line 271; ForEachBody is one pass of    *)
(* the loop body up to the call of func: the value handed to func, the     *)
(* receiver (its cached leaf) afterwards and the error raised.             *)
ForEachEnd(self, end) ==
    IF end = None THEN self.size
    ELSE IF end.v < 0 THEN end.v + self.size
    ELSE end.v

ForEachBody(h, self, i) ==
    LET leaf_ix == AndMask(i)
    IN IF leaf_ix = 0 \/ self.leaf = None THEN at(h, self, i)
       ELSE [err |-> "ok", val |-> Child(h, self.leaf, leaf_ix), self |-> self]

(* for_each with a func that touches nothing: the values and indices func  *)
(* is called with.                                                         *)
RECURSIVE ForEachLoop(_, _, _, _)
ForEachLoop(h, st, i, end) ==
    IF i >= end \/ st.err # "ok" THEN st
    ELSE LET r == ForEachBody(h, st.self, i)
         IN ForEachLoop(h, [self |-> r.self,
                            seen |-> IF r.err = "ok" THEN Append(st.seen, <<r.val, i>>)
                                     ELSE st.seen,
                            err |-> r.err], i + 1, end)

for_each(h, self, start, end) ==
    ForEachLoop(h, [self |-> [self EXCEPT !.leaf = None], seen |-> <<>>, err |-> "ok"],
                start, ForEachEnd(self, end))

(* Vector.reduce with func = lambda x, y: x + y, the func of the module's   *)
(* own example: the sum of two ints, a TypeError on None or a Node.        *)
Add(acc, val) ==
    IF acc.k = "val" /\ val.k = "val" THEN [err |-> "ok", val |-> Val(acc.v + val.v)]
    ELSE [err |-> "TypeError", val |-> None]

(* The for_each of line 296 with _func as its func.                        *)
RECURSIVE ReduceLoop(_, _, _, _)
ReduceLoop(h, st, i, end) ==
    IF i >= end \/ st.err # "ok" THEN st
    ELSE LET r == ForEachBody(h, st.self, i)
             f == Add(st.acc, r.val)
         IN IF r.err # "ok" THEN [st EXCEPT !.self = r.self, !.err = r.err]
            ELSE ReduceLoop(h, [self |-> r.self,
                                acc |-> IF f.err = "ok" THEN f.val ELSE st.acc,
                                err |-> f.err], i + 1, end)

ReduceFrom(h, self, start, first) ==
    IF first.err # "ok" THEN [err |-> first.err, val |-> None, self |-> first.self]
    ELSE LET st == ReduceLoop(h, [self |-> [first.self EXCEPT !.leaf = None],
                                  acc |-> first.val, err |-> "ok"],
                              start, first.self.size)
         IN [err |-> st.err, val |-> IF st.err = "ok" THEN st.acc ELSE None, self |-> st.self]

reduce(h, self, init) ==
    IF init = None THEN ReduceFrom(h, self, 1, at(h, self, 0))
    ELSE ReduceFrom(h, self, 0, [err |-> "ok", val |-> init, self |-> self])

----------------------------------------------------------------------------
(* The program: one constructed Vector, then calls on it and on the        *)
(* Vectors those calls return.  vecs holds every Vector object the program *)
(* has a reference to; last describes the call that just finished.         *)

(* The inputs: list(range(n)) for every length up to MaxLen, and the       *)
(* values appended later, which no input list contains.                    *)
Range(n) == [i \in 1 .. n |-> i - 1]
Elements(list) == [i \in 1 .. Len(list) |-> Val(list[i])]
Inputs == {Range(n) : n \in 0 .. MaxLen}
Vals == {100, 101}

Call(op, self, arg, ret, val, err) ==
    [op |-> op, self |-> self, arg |-> arg, ret |-> ret, val |-> val, err |-> err]

(* No for_each is running.                                                 *)
NoIter == [self |-> 0, start |-> 0, i |-> 0, end |-> 0, seen |-> <<>>, err |-> "ok",
           raised_by |-> "none", reentries |-> 0]

Init ==
    \E vals \in Inputs :
        LET made == Vector(<<>>, Elements(vals))
        IN /\ heap = made.heap
           /\ vecs = <<made.ret>>
           /\ last = Call("Vector", 0, vals, 1, None, made.err)
           /\ steps = 0
           /\ iter = NoIter

(* The effect of a finished append, pop or copy on the program's state.    *)
Finish(op, i, arg, res) ==
    /\ heap' = res.heap
    /\ vecs' = IF res.same THEN [vecs EXCEPT ![i] = res.self]
               ELSE Append([vecs EXCEPT ![i] = res.self], res.ret)
    /\ last' = Call(op, i, arg, IF res.err # "ok" THEN 0
                                ELSE IF res.same THEN i ELSE Len(vecs) + 1,
                    None, res.err)
    /\ steps' = steps + 1
    /\ UNCHANGED iter

DoAppend(i, x) ==
    /\ steps < MaxSteps
    /\ Finish("append", i, Val(x), append(heap, vecs[i], Val(x)))

DoPop(i) ==
    /\ steps < MaxSteps
    /\ Finish("pop", i, None, pop(heap, vecs[i]))

DoCopy(i) ==
    /\ steps < MaxSteps
    /\ Finish("copy", i, None, copy(heap, vecs[i]))

DoMutate(i) ==
    /\ steps < MaxSteps
    /\ vecs' = [vecs EXCEPT ![i] = mutate(vecs[i])]
    /\ last' = Call("mutate", i, None, 0, None, "ok")
    /\ steps' = steps + 1
    /\ UNCHANGED <<heap, iter>>

DoAt(i, key) ==
    /\ steps < MaxSteps
    /\ LET res == at(heap, vecs[i], key)
       IN /\ vecs' = [vecs EXCEPT ![i] = res.self]
          /\ last' = Call("at", i, key, 0, res.val, res.err)
    /\ steps' = steps + 1
    /\ UNCHANGED <<heap, iter>>

(* Any interleaving of the shape-changing calls and mode switches.         *)
Next ==
    \E i \in 1 .. Len(vecs) :
        \/ \E x \in Vals : DoAppend(i, x)
        \/ DoPop(i)
        \/ DoCopy(i)
        \/ DoMutate(i)

Spec == Init /\ [][Next]_vars

(* A program that never leaves persistent mode: the empty Vector, n        *)
(* persistent appends (each on the result of the one before), then any     *)
(* persistent appends, pops and copies.                                    *)
RECURSIVE AppendChain(_, _, _)
AppendChain(call, vals, n) ==
    IF n > Len(vals) \/ call.err # "ok" THEN call
    ELSE AppendChain(append(call.heap, call.ret, Val(vals[n])), vals, n + 1)

InitPersistent ==
    \E vals \in Inputs :
        LET made == AppendChain(Vector(<<>>, <<>>), vals, 1)
        IN /\ heap = made.heap
           /\ vecs = <<made.ret>>
           /\ last = Call("chain", 0, vals, 1, None, made.err)
           /\ steps = 0
           /\ iter = NoIter

NextPersistent ==
    \E i \in 1 .. Len(vecs) :
        \/ \E x \in Vals : DoAppend(i, x)
        \/ DoPop(i)
        \/ DoCopy(i)

SpecPersistent == InitPersistent /\ [][NextPersistent]_vars

----------------------------------------------------------------------------
(* Observations used by the properties.                                    *)

(* What a fresh at(key) on v gives in heap h: the error and the value.     *)
Read(h, v, key) == LET r == at(h, v, key) IN <<r.err, r.val>>
Returns(h, v, key, val) == Read(h, v, key) = <<"ok", val>>

Indices(v) == 0 .. (v.size - 1)

(* The node objects reachable from a root.                                 *)
RECURSIVE ReachFrom(_, _, _)
ReachFrom(h, s, fuel) ==
    IF ~IsNode(s) THEN {}
    ELSE {s.v} \cup (IF fuel = 0 THEN {}
                     ELSE UNION {ReachFrom(h, h[s.v][k], fuel - 1) : k \in 1 .. WIDTH})
Reach(h, root) == ReachFrom(h, root, Len(h))

(* The nodes of v that the walk to index key visits, root included.        *)
RECURSIVE PathFrom(_, _, _, _)
PathFrom(h, s, key, level) ==
    IF ~IsNode(s) THEN {}
    ELSE {s.v} \cup (IF level = 0 THEN {}
                     ELSE PathFrom(h, Child(h, s, AndMask(ShiftRight(key, level * BITS))),
                                   key, level - 1))
Path(h, v, key) == PathFrom(h, v.root, key, depth(v.size))

BuiltBy(op) == last.op = op /\ steps = 0
Called(op) == last'.op = op /\ steps' = steps + 1

----------------------------------------------------------------------------
(* C1: Vector(vals) ends construction in persistent mode, has size         *)
(* len(vals), and at(i) returns vals[i] for every index i.                 *)
C1_Construction ==
    BuiltBy("Vector") =>
        LET v == vecs[last.ret]
        IN /\ last.err = "ok"
           /\ ~v.mutation
           /\ v.size = Len(last.arg)
           /\ \A i \in Indices(v) : Returns(heap, v, i, Val(last.arg[i + 1]))

(* C2: w = append(v, x) in persistent mode has size(v) + 1 elements, reads *)
(* like v below size(v) and reads x at size(v).                            *)
C2_IndexedRoundTrip ==
    [][(Called("append") /\ ~vecs[last'.self].mutation) =>
          /\ last'.err = "ok"
          /\ LET v == vecs[last'.self]
                 w == vecs'[last'.ret]
             IN /\ w.size = v.size + 1
                /\ \A i \in Indices(v) : Read(heap', w, i) = Read(heap, v, i)
                /\ Returns(heap', w, v.size, last'.arg)]_vars

(* C3: a persistent-mode append, pop or copy changes no existing Vector:   *)
(* not its size, its root, nor any node reachable from its root.           *)
C3_Persistence ==
    [][((Called("append") \/ Called("pop") \/ Called("copy")) /\ ~vecs[last'.self].mutation) =>
          \A j \in 1 .. Len(vecs) :
              /\ vecs'[j].size = vecs[j].size
              /\ vecs'[j].root = vecs[j].root
              /\ vecs'[j].mutation = vecs[j].mutation
              /\ \A n \in Reach(heap, vecs[j].root) : heap'[n] = heap[n]
              /\ \A i \in Indices(vecs[j]) : Read(heap', vecs'[j], i) = Read(heap, vecs[j], i)]_vars

(* C3's case: a persistent call returned a new Vector that shares nodes    *)
(* with its receiver.                                                      *)
C3_Witness ==
    /\ last.op \in {"append", "pop"}
    /\ last.err = "ok"
    /\ last.ret # last.self
    /\ vecs[last.self].size > WIDTH
    /\ Reach(heap, vecs[last.self].root) \cap Reach(heap, vecs[last.ret].root) # {}

(* C4: pop(append(v, x)) succeeds and reads like v; so does copy().        *)
SameElements(h, v, h2, w) ==
    /\ w.size = v.size
    /\ \A i \in Indices(v) : Read(h2, w, i) = Read(h, v, i)

C4_AppendPopInverse ==
    [][/\ Called("append") =>
             /\ last'.err = "ok"
             /\ LET p == pop(heap', vecs'[last'.ret])
                IN /\ p.err = "ok"
                   /\ SameElements(heap, vecs[last'.self], p.heap, p.ret)
       /\ Called("copy") =>
             /\ last'.err = "ok"
             /\ SameElements(heap, vecs[last'.self], heap', vecs'[last'.ret])]_vars

(* C5: every index of every Vector is reached by walking depth() levels    *)
(* from the root, ending on a leaf whose slot holds an element.            *)
WalkEndsOnElement(h, v, i) ==
    LET st == reduce_node(i, "at", Walk(h, v.root), v.mutation, depth(v.size))
    IN /\ st.err = "ok"
       /\ IsNode(st.node)
       /\ Child(h, st.node, AndMask(i)).k = "val"

C5_DepthPath ==
    \A j \in 1 .. Len(vecs) :
        vecs[j].size > 0 =>
            \A i \in Indices(vecs[j]) : WalkEndsOnElement(heap, vecs[j], i)

(* C6: pop() on an empty Vector raises, returns nothing and leaves the     *)
(* receiver as it was; no Vector has a negative size.                      *)
C6_PopUnderflow ==
    [][(Called("pop") /\ vecs[last'.self].size = 0) =>
          /\ last'.err # "ok"
          /\ vecs' = vecs
          /\ \A j \in 1 .. Len(vecs') : vecs'[j].size >= 0]_vars

(* C10: after w = append(v, x) in persistent mode, every node of v that is *)
(* not on the path to the new index is the same object in w.  When the     *)
(* root overflows, the new index lies outside v's tree and no node of v    *)
(* is on that path.                                                        *)
OnAppendPath(h, v) ==
    IF is_power_of(v.size, WIDTH) THEN {} ELSE Path(h, v, v.size)

C10_StructuralSharing ==
    [][(Called("append") /\ ~vecs[last'.self].mutation /\ last'.err = "ok") =>
          LET v == vecs[last'.self]
              w == vecs'[last'.ret]
          IN (Reach(heap, v.root) \ OnAppendPath(heap, v)) \subseteq Reach(heap', w.root)]_vars

----------------------------------------------------------------------------
(* A program that builds two Vectors and concatenates them, each possibly  *)
(* with itself and with what earlier calls returned.                       *)
MaxConcatLen == 5
MaxConcatSteps == 2
MaxArgs == 2

Shifted(n, base) == [i \in 1 .. n |-> base + i - 1]

InitConcat ==
    \E n1 \in 0 .. MaxConcatLen, n2 \in 0 .. MaxConcatLen :
        LET v1 == Vector(<<>>, Elements(Shifted(n1, 0)))
            v2 == Vector(v1.heap, Elements(Shifted(n2, 40)))
        IN /\ heap = v2.heap
           /\ vecs = <<v1.ret, v2.ret>>
           /\ last = Call("Vector", 0, Shifted(n2, 40), 2, None, v2.err)
           /\ steps = 0
           /\ iter = NoIter

ArgLists == UNION {[1 .. k -> 1 .. Len(vecs)] : k \in 0 .. MaxArgs}

DoConcat(i, args) ==
    /\ steps < MaxConcatSteps
    /\ LET res == concat(heap, vecs, i, args)
       IN /\ heap' = res.heap
          /\ vecs' = res.vecs
          /\ last' = Call("concat", i, args, res.ret, None, res.err)
    /\ steps' = steps + 1
    /\ UNCHANGED iter

DoMutateConcat(i) ==
    /\ steps < MaxConcatSteps
    /\ vecs' = [vecs EXCEPT ![i] = mutate(vecs[i])]
    /\ last' = Call("mutate", i, None, 0, None, "ok")
    /\ steps' = steps + 1
    /\ UNCHANGED <<heap, iter>>

NextConcat ==
    \E i \in 1 .. Len(vecs) :
        \/ \E args \in ArgLists : DoConcat(i, args)
        \/ DoMutateConcat(i)

SpecConcat == InitConcat /\ [][NextConcat]_vars

(* C7: a persistent-mode v.concat(a1, ..., ak) returns, in the receiver's  *)
(* mode, a Vector that reads as v followed by a1, ..., ak, and leaves v    *)
(* and every argument with their size and elements.                        *)
RECURSIVE Flatten(_, _, _, _)
Flatten(h, vs, order, k) ==
    IF k > Len(order) THEN <<>>
    ELSE [j \in 1 .. vs[order[k]].size |-> Read(h, vs[order[k]], j - 1)]
         \o Flatten(h, vs, order, k + 1)

C7_Concat ==
    [][(Called("concat") /\ ~vecs[last'.self].mutation) =>
          /\ last'.err = "ok"
          /\ LET w == vecs'[last'.ret]
                 expected == Flatten(heap, vecs, <<last'.self>> \o last'.arg, 1)
             IN /\ w.size = Len(expected)
                /\ \A k \in 1 .. Len(expected) :
                       /\ expected[k][1] = "ok"
                       /\ Read(heap', w, k - 1) = expected[k]
                /\ w.mutation = vecs[last'.self].mutation
          /\ \A j \in 1 .. Len(vecs) : SameElements(heap, vecs[j], heap', vecs'[j])]_vars

----------------------------------------------------------------------------
(* A program that builds one Vector, slices or splices it, and reduces it  *)
(* or the Vector that came out, as the module's own example does.          *)
MaxSliceSteps == 1
MaxReduceSteps == 2

Starts(v) == {None} \cup {Val(n) : n \in 0 .. v.size}
Ends(v) == {None} \cup {Val(n) : n \in (0 - v.size) .. v.size}
SpliceVals == {<<>>, <<99>>}
Inits == {None, Val(10)}

DoSlice(i, start, end) ==
    /\ steps < MaxSliceSteps
    /\ Finish("slice", i, <<start, end>>, slice(heap, vecs[i], start, end))

DoSplice(i, start, vals) ==
    /\ steps < MaxSliceSteps
    /\ Finish("splice", i, <<Val(start), vals>>, splice(heap, vecs[i], start, Elements(vals)))

DoReduce(i, init) ==
    /\ steps < MaxReduceSteps
    /\ LET res == reduce(heap, vecs[i], init)
       IN /\ vecs' = [vecs EXCEPT ![i] = res.self]
          /\ last' = Call("reduce", i, init, 0, res.val, res.err)
    /\ steps' = steps + 1
    /\ UNCHANGED <<heap, iter>>

NextSlice ==
    \E i \in 1 .. Len(vecs) :
        \/ \E start \in Starts(vecs[i]), end \in Ends(vecs[i]) : DoSlice(i, start, end)
        \/ \E start \in 0 .. vecs[i].size, vals \in SpliceVals : DoSplice(i, start, vals)
        \/ \E init \in Inits : DoReduce(i, init)

SpecSlice == Init /\ [][NextSlice]_vars

(* C8: slice(start, end) with start given returns the elements at          *)
(* [start, end), end = size when omitted and size + end when negative.     *)
HalfOpenEnd(v, end) ==
    IF end = None THEN v.size
    ELSE IF end.v < 0 THEN v.size + end.v
    ELSE end.v

C8_Slice ==
    [][(Called("slice") /\ last'.arg[1] # None) =>
          /\ last'.err = "ok"
          /\ LET v == vecs[last'.self]
                 w == vecs'[last'.ret]
                 start == last'.arg[1].v
                 end == HalfOpenEnd(v, last'.arg[2])
             IN /\ w.size = (IF end > start THEN end - start ELSE 0)
                /\ \A k \in Indices(w) : Read(heap', w, k) = Read(heap, v, start + k)]_vars

----------------------------------------------------------------------------
(* A program that builds one Vector and traverses it with for_each.  The   *)
(* traversal is a process: iter holds its position, the (value, index)     *)
(* pairs func has been called with, and the error that ended it.  func     *)
(* returns at once, or first reads the same Vector with at(j), or runs a   *)
(* whole for_each(s) of its own on it.                                     *)
MaxIterLen == 6
MaxReentries == 1

InitForEach ==
    \E n \in 0 .. MaxIterLen :
        LET made == Vector(<<>>, Elements(Range(n)))
        IN /\ heap = made.heap
           /\ vecs = <<made.ret>>
           /\ last = Call("Vector", 0, Range(n), 1, None, made.err)
           /\ steps = 0
           /\ iter = NoIter

ForEachStart(v, start, end) ==
    /\ iter.self = 0
    /\ vecs' = [vecs EXCEPT ![v].leaf = None]
    /\ iter' = [NoIter EXCEPT !.self = v, !.start = start, !.i = start,
                              !.end = ForEachEnd(vecs[v], end)]
    /\ last' = Call("for_each", v, <<start, end>>, 0, None, "ok")
    /\ steps' = steps + 1
    /\ UNCHANGED heap

Running == iter.self # 0 /\ iter.err = "ok" /\ iter.i < iter.end

(* One pass of the loop with a func that returns at once.                  *)
ForEachStep ==
    /\ Running
    /\ LET r == ForEachBody(heap, vecs[iter.self], iter.i)
       IN /\ vecs' = [vecs EXCEPT ![iter.self] = r.self]
          /\ iter' = IF r.err # "ok"
                     THEN [iter EXCEPT !.err = r.err, !.raised_by = "for_each"]
                     ELSE [iter EXCEPT !.seen = Append(@, <<r.val, iter.i>>), !.i = @ + 1]
    /\ UNCHANGED <<heap, last, steps>>

(* One pass of the loop whose func calls at(j) on the Vector.              *)
ForEachStepAt(j) ==
    /\ Running
    /\ iter.reentries < MaxReentries
    /\ LET r == ForEachBody(heap, vecs[iter.self], iter.i)
           inner == at(heap, r.self, j)
       IN /\ r.err = "ok"
          /\ vecs' = [vecs EXCEPT ![iter.self] = inner.self]
          /\ iter' = [iter EXCEPT !.seen = Append(@, <<r.val, iter.i>>),
                                  !.i = IF inner.err = "ok" THEN @ + 1 ELSE @,
                                  !.err = inner.err,
                                  !.raised_by = IF inner.err = "ok" THEN "none" ELSE "func",
                                  !.reentries = @ + 1]
    /\ UNCHANGED <<heap, last, steps>>

(* One pass of the loop whose func runs for_each(s) on the Vector.         *)
ForEachStepNested(s) ==
    /\ Running
    /\ iter.reentries < MaxReentries
    /\ LET r == ForEachBody(heap, vecs[iter.self], iter.i)
           inner == for_each(heap, r.self, s, None)
       IN /\ r.err = "ok"
          /\ vecs' = [vecs EXCEPT ![iter.self] = inner.self]
          /\ iter' = [iter EXCEPT !.seen = Append(@, <<r.val, iter.i>>),
                                  !.i = IF inner.err = "ok" THEN @ + 1 ELSE @,
                                  !.err = inner.err,
                                  !.raised_by = IF inner.err = "ok" THEN "none" ELSE "func",
                                  !.reentries = @ + 1]
    /\ UNCHANGED <<heap, last, steps>>

IterIndices == IF iter.self = 0 THEN {} ELSE Indices(vecs[iter.self])

NextForEach ==
    \/ \E v \in 1 .. Len(vecs) :
           \E start \in 0 .. vecs[v].size, end \in Ends(vecs[v]) : ForEachStart(v, start, end)
    \/ ForEachStep
    \/ \E j \in IterIndices : ForEachStepAt(j)
    \/ \E s \in IterIndices : ForEachStepNested(s)

SpecForEach == InitForEach /\ [][NextForEach]_vars

(* C9: func is called once per index of [start, end), in ascending order,  *)
(* with the value a fresh at(i) returns, whatever func itself does with    *)
(* the Vector; for_each raises only where at(i) raises.                    *)
C9_ForEach ==
    iter.self # 0 =>
        LET v == vecs[iter.self]
        IN /\ \A k \in 1 .. Len(iter.seen) :
                  iter.seen[k] = <<at(heap, v, iter.start + k - 1).val, iter.start + k - 1>>
           /\ iter.raised_by # "func" => Len(iter.seen) = iter.i - iter.start
           /\ iter.raised_by = "for_each" => at(heap, v, iter.i).err = iter.err

----------------------------------------------------------------------------
(* A program that builds the same list twice from two empty Vectors: first *)
(* by transient appends on one instance (vecs[1], switched to transient    *)
(* mode by mutate), then by persistent appends, each on the Vector the one *)
(* before returned (the last of vecs).  The list is list(range(n)).        *)
MaxBuildLen == 17

InitBuild ==
    LET t == Vector(<<>>, <<>>)
        p == Vector(t.heap, <<>>)
    IN /\ heap = p.heap
       /\ vecs = <<mutate(t.ret), p.ret>>
       /\ last = Call("Vector", 0, <<>>, 2, None, p.err)
       /\ steps = 0
       /\ iter = NoIter

BuildTransient ==
    /\ vecs[Len(vecs)].size = 0
    /\ vecs[1].size < MaxBuildLen
    /\ Finish("append", 1, Val(vecs[1].size), append(heap, vecs[1], Val(vecs[1].size)))

BuildPersistent ==
    LET j == Len(vecs)
    IN /\ vecs[j].size < MaxBuildLen
       /\ Finish("append", j, Val(vecs[j].size), append(heap, vecs[j], Val(vecs[j].size)))

NextBuild ==
    \/ BuildTransient
    \/ BuildPersistent

SpecBuild == InitBuild /\ [][NextBuild]_vars

(* C11: n transient appends on one instance and n persistent appends give  *)
(* Vectors of the same size on which every at(i), i < n, has the same      *)
(* outcome; a transient append returns its receiver, one element longer,   *)
(* and a persistent append returns a new Vector and leaves its receiver.   *)
C11_TransientPersistent ==
    [][Called("append") =>
          /\ last'.err = "ok"
          /\ LET v == vecs[last'.self]
             IN IF v.mutation
                THEN /\ last'.ret = last'.self
                     /\ Len(vecs') = Len(vecs)
                     /\ vecs'[last'.self].size = v.size + 1
                ELSE /\ last'.ret = Len(vecs) + 1
                     /\ Len(vecs') = Len(vecs) + 1
                     /\ vecs'[last'.ret].size = v.size + 1
                     /\ vecs'[last'.self].size = v.size
          /\ LET t == vecs'[1]
                 p == vecs'[Len(vecs')]
             IN t.size = p.size =>
                    \A i \in Indices(t) : Read(heap', t, i) = Read(heap', p, i)]_vars

(* C11's case: both builds have appended WIDTH^2 + 1 values and the last   *)
(* of them is read back from the transient instance.                       *)
C11_Witness ==
    /\ last.op = "append"
    /\ Len(vecs) > 2
    /\ vecs[1].mutation /\ ~vecs[Len(vecs)].mutation
    /\ vecs[1].size = WIDTH * WIDTH + 1
    /\ vecs[Len(vecs)].size = vecs[1].size
    /\ Returns(heap, vecs[1], WIDTH * WIDTH, Val(WIDTH * WIDTH))
    /\ Returns(heap, vecs[Len(vecs)], WIDTH * WIDTH, Val(WIDTH * WIDTH))

----------------------------------------------------------------------------
(* A program that builds a Vector and reads it with at, at indices inside  *)
(* and outside [0, size): down to -(size + 1) and up to size + MaxBeyond.  *)
MaxBeyond == 5

AtKeys(v) == (0 - v.size - 1) .. (v.size + MaxBeyond)

NextAt ==
    \E i \in 1 .. Len(vecs) : \E key \in AtKeys(vecs[i]) : DoAt(i, key)

SpecAt == Init /\ [][NextAt]_vars

OutOfRange(v, key) == key < 0 \/ key >= v.size

(* C12: at(index) with index < 0 or index >= size raises and returns       *)
(* nothing: neither an empty slot's None, nor an element, nor a Node.      *)
C12_AtOutOfRange ==
    [][(Called("at") /\ OutOfRange(vecs[last'.self], last'.arg)) =>
          last'.err # "ok"]_vars

----------------------------------------------------------------------------
(* A program that builds two Vectors and calls append, pop, at and concat  *)
(* on them and on what those calls return, in either mode, so that calls   *)
(* that raise are reached with more than one Vector in existence.          *)
DoAppendEither(i, x) == steps < MaxConcatSteps /\ DoAppend(i, x)
DoPopEither(i) == steps < MaxConcatSteps /\ DoPop(i)
DoAtEither(i, key) == steps < MaxConcatSteps /\ DoAt(i, key)

NextErrors ==
    \E i \in 1 .. Len(vecs) :
        \/ \E x \in Vals : DoAppendEither(i, x)
        \/ DoPopEither(i)
        \/ \E key \in Indices(vecs[i]) : DoAtEither(i, key)
        \/ \E args \in ArgLists : DoConcat(i, args)
        \/ DoMutateConcat(i)

SpecErrors == InitConcat /\ [][NextErrors]_vars

Raising(op) == Called(op) /\ last'.err # "ok"

(* C13: an append, pop, at or concat that raises leaves its receiver with  *)
(* the size, root and mode it had, and leaves every node reachable from    *)
(* any Vector with the slots it had.                                       *)
C13_NoPartialFailure ==
    [][(Raising("append") \/ Raising("pop") \/ Raising("at") \/ Raising("concat")) =>
          /\ vecs'[last'.self].size = vecs[last'.self].size
          /\ vecs'[last'.self].root = vecs[last'.self].root
          /\ vecs'[last'.self].mutation = vecs[last'.self].mutation
          /\ \A j \in 1 .. Len(vecs) :
                 \A n \in Reach(heap, vecs[j].root) : heap'[n] = heap[n]]_vars

----------------------------------------------------------------------------
(* The number of levels of a tree: the nodes on its leftmost branch.       *)
RECURSIVE LevelsFrom(_, _, _)
LevelsFrom(h, s, fuel) ==
    IF ~IsNode(s) \/ fuel = 0 THEN 0
    ELSE 1 + LevelsFrom(h, Child(h, s, 0), fuel - 1)
Levels(h, root) == LevelsFrom(h, root, Len(h))

(* The second of two persistent pops on a Vector built from WIDTH^k + 1    *)
(* values: its receiver is what the first pop returned, of size WIDTH^k.   *)
PopBelowPower ==
    /\ steps = 1 /\ last.op = "pop" /\ last.err = "ok"
    /\ ~vecs[1].mutation
    /\ is_power_of(vecs[1].size - 1, WIDTH)
    /\ Called("pop") /\ last'.self = last.ret

(* C14: built from WIDTH^k + 1 values and popped twice in persistent mode, *)
(* the second pop (size WIDTH^k to WIDTH^k - 1) sheds one root level: the  *)
(* result has depth() + 1 levels and at(i) returns the i-th value built.   *)
C14_RootShrink ==
    [][PopBelowPower =>
          /\ last'.err = "ok"
          /\ LET v == vecs[last'.self]
                 w == vecs'[last'.ret]
             IN /\ w.size = v.size - 1
                /\ Levels(heap', w.root) = Levels(heap, v.root) - 1
                /\ Levels(heap', w.root) = depth(w.size) + 1
                /\ \A i \in Indices(w) : Returns(heap', w, i, Val(i))]_vars

----------------------------------------------------------------------------
(* A persistent append on what a persistent pop of the built Vector        *)
(* returned, the built Vector being one that at reads at every index.      *)
Readable(h, v) == \A i \in Indices(v) : Read(h, v, i)[1] = "ok"

AppendAfterPop ==
    /\ steps = 1 /\ last.op = "pop" /\ last.err = "ok"
    /\ ~vecs[1].mutation
    /\ vecs[1].size >= 1
    /\ Readable(heap, vecs[1])
    /\ Called("append") /\ last'.self = last.ret

(* C15: for a built Vector v of n >= 1 values that at can read, w =         *)
(* append(pop(v), x) in persistent mode has size n, reads like v below     *)
(* n - 1 and reads x at n - 1; append adds a root level only when the      *)
(* tree pop returned is full.                                              *)
C15_ReplaceLast ==
    [][AppendAfterPop =>
          /\ last'.err = "ok"
          /\ LET v == vecs[1]
                 p == vecs[last'.self]
                 w == vecs'[last'.ret]
             IN /\ w.size = v.size
                /\ \A i \in Indices(p) : Read(heap', w, i) = Read(heap, v, i)
                /\ Returns(heap', w, v.size - 1, last'.arg)
                /\ Levels(heap', w.root) > Levels(heap, p.root) =>
                       p.size >= WIDTH ^ Levels(heap, p.root)]_vars

====
